---------------------------- MODULE Spec2Model ----------------------------
(* NUJJUM backend (src/main.py): request validation, the profile and SOS   *)
(* handlers over the document store, the localisation lookup and the       *)
(* diagnostic endpoint.  Each request is one step: validation by the       *)
(* framework, then the handler body with its single store call.            *)
EXTENDS Integers, Sequences, FiniteSets, TLC

VARIABLES poduser, sos, nextOid, last, returned

vars == <<poduser, sos, nextOid, last, returned>>

(* ------------------------------ bounds -------------------------------- *)

\* documents the store accepts in one run
MaxDocs == 2
\* largest explicit `limit` a client sends (besides the default)
MaxLimit == 2
\* length of the long / short store error messages
LongMsgLen == 51
ShortMsgLen == 7
\* longest language code drawn exhaustively from LangAlphabet
MaxLangLen == 2
\* most collection names the database reports
MaxCollections == 11

(* --------------------------- program constants ------------------------ *)

DefaultLimit == 10
DiagMsgLimit == 50
DiagCollectionLimit == 10
StatusServerError == 500
StatusUnprocessable == 422
StatusOk == 200

DisabilityTypes == {"visual", "hearing", "mobility", "cognitive", "multiple"}
PreferredModes == {"voice", "text", "simplified", "auto"}
Languages == {"en", "ar"}
EmergencyTypes == {"medical", "safety", "mobility_support", "other"}

\* Python's None
None == "None"

(* ------------------------------ helpers ------------------------------- *)

Min(a, b) == IF a < b THEN a ELSE b

\* dict.get(key, default) on a JSON object modelled as a function
Get(obj, key, default) == IF key \in DOMAIN obj THEN obj[key] ELSE default

\* a dict with one key removed
Without(obj, key) == [k \in DOMAIN obj \ {key} |-> obj[k]]

\* str(ObjectId): the store's identifiers are printed, never passed as is
Str(oid) == ToString(oid)

\* an exception message of n characters
Msg(n) == [i \in 1..n |-> "e"]

(* --------------------- request schemas (pydantic) --------------------- *)

\* DisabilityProfile with language typed as a plain string
ValidDisabilityProfileAnyLanguage(p) ==
    /\ "disability_type" \in DOMAIN p
    /\ \A i \in 1..Len(p["disability_type"]) : p["disability_type"][i] \in DisabilityTypes
    /\ Get(p, "preferred_mode", "auto") \in PreferredModes

\* DisabilityProfile: disability_type is required and is a list of the
\* literals (no minimum length); the other fields default.
ValidDisabilityProfile(p) ==
    /\ "disability_type" \in DOMAIN p
    /\ \A i \in 1..Len(p["disability_type"]) : p["disability_type"][i] \in DisabilityTypes
    /\ Get(p, "preferred_mode", "auto") \in PreferredModes
    /\ Get(p, "language", "en") \in Languages

DumpDisabilityProfile(p) ==
    [disability_type |-> p["disability_type"],
     preferred_mode |-> Get(p, "preferred_mode", "auto"),
     language |-> Get(p, "language", "en"),
     high_contrast |-> Get(p, "high_contrast", FALSE),
     large_text |-> Get(p, "large_text", FALSE)]

\* UserProfile: profile is required; undeclared keys (such as id) are ignored
ValidUserProfile(u) ==
    /\ "profile" \in DOMAIN u
    /\ ValidDisabilityProfile(u["profile"])

\* payload.user.model_dump()
DumpUserProfile(u) ==
    [name |-> Get(u, "name", None),
     email |-> Get(u, "email", None),
     phone |-> Get(u, "phone", None),
     country |-> Get(u, "country", None),
     city |-> Get(u, "city", None),
     profile |-> DumpDisabilityProfile(u["profile"]),
     documents_submitted |-> Get(u, "documents_submitted", <<>>)]

\* ProfileCreateRequest: user is required
ValidProfileCreateRequest(body) ==
    /\ "user" \in DOMAIN body
    /\ ValidUserProfile(body["user"])

\* SOSRequest: every field optional; status is not a field of the request
ValidSOSRequest(body) ==
    Get(body, "emergency_type", "medical") \in EmergencyTypes

\* req.model_dump()
DumpSOSRequest(body) ==
    [user_id |-> Get(body, "user_id", None),
     location |-> Get(body, "location", None),
     notes |-> Get(body, "notes", None),
     emergency_type |-> Get(body, "emergency_type", "medical")]

(* ------------------------- request inputs ----------------------------- *)

RawDisabilityLists ==
    {<<>>, <<"visual">>, <<"blind">>, <<"visual", "blind">>}

ProfileObjects ==
    {[disability_type |-> dt] : dt \in RawDisabilityLists}
    \cup {[disability_type |-> <<"visual">>, preferred_mode |-> "loud"],
          [disability_type |-> <<"visual">>, language |-> "fr"],
          [disability_type |-> <<"hearing", "multiple">>, language |-> "ar",
           preferred_mode |-> "voice", large_text |-> TRUE],
          [language |-> "en"]}

UserObjects ==
    {[profile |-> p] : p \in ProfileObjects}
    \cup {[profile |-> [disability_type |-> <<"visual">>], id |-> "2"],
          [name |-> "Amal"]}

\* bodies of POST /api/profile
ProfileBodies == {[user |-> u] : u \in UserObjects} \cup {<<>>}

SosStatusInputs == {"absent", "open", "closed", "bogus"}

SosCores ==
    {<<>>,
     [emergency_type |-> "safety", location |-> "Dubai", user_id |-> "7",
      notes |-> "help"],
     [emergency_type |-> "fire", location |-> "Dubai"]}

\* bodies of POST /api/sos; a client may add a status key
SosBodies ==
    {IF s = "absent" THEN c ELSE ("status" :> s) @@ c :
        s \in SosStatusInputs, c \in SosCores}

\* query of GET /api/profile: limit absent or an integer
ListQueries == {<<>>} \cup {[limit |-> n] : n \in -1..MaxLimit}

\* messages of the exceptions the store raises
StoreErrors == {Msg(ShortMsgLen), Msg(LongMsgLen)}

(* ------------------ document store adapter (database) ----------------- *)

\* the document as the store keeps it: the data under a fresh _id
StoredDocument(oid, data) == ("_id" :> oid) @@ data

\* create_document's return value: the new identifier as a string
InsertedId(oid) == Str(oid)

\* get_documents(collection, {}, limit): up to limit documents in store
\* order; a negative limit has no meaning in the contract, any prefix
\* may come back
GetDocuments(docs, limit) ==
    IF limit >= 0
    THEN {SubSeq(docs, 1, Min(limit, Len(docs)))}
    ELSE {SubSeq(docs, 1, k) : k \in 0..Len(docs)}

(* ------------------------------ responses ----------------------------- *)

\* FastAPI's answer to a body or query that fails validation
ValidationErrorResponse == [status |-> StatusUnprocessable]

\* raise HTTPException(status_code=500, detail=str(e))
ServerError(e) == [status |-> StatusServerError, detail |-> e]

\* the response built with the collection's name in place of the new id
ProfileCreateResponseFixedId(profile_id) ==
    [status |-> StatusOk, id |-> "poduser", message |-> "Profile created"]

\* return ProfileCreateResponse(id=profile_id, message="Profile created")
ProfileCreateResponse(profile_id) ==
    [status |-> StatusOk, id |-> profile_id, message |-> "Profile created"]

\* the request's status kept when the client sends one
SosDataKeepStatus(req) ==
    ("status" :> Get(req, "status", "open")) @@ DumpSOSRequest(req)

\* data = req.model_dump(); data["status"] = "open"
SosData(req) == ("status" :> "open") @@ DumpSOSRequest(req)

\* return SOSResponse(id=sos_id, status="open", message=...)
SOSResponse(sos_id) ==
    [status |-> StatusOk, id |-> sos_id, sos_status |-> "open",
     message |-> "SOS logged. Coordinators notified."]

\* the id added without popping _id
SanitizeKeepInternal(d) ==
    IF "_id" \in DOMAIN d
    THEN ("id" :> Str(d["_id"])) @@ d
    ELSE d

\* if "_id" in d: d["id"] = str(d.pop("_id"))
Sanitize(d) ==
    IF "_id" \in DOMAIN d
    THEN ("id" :> Str(d["_id"])) @@ Without(d, "_id")
    ELSE d

\* return {"items": docs}
ListResponse(docs) ==
    [status |-> StatusOk, items |-> [i \in 1..Len(docs) |-> Sanitize(docs[i])]]

(* ------------------------------ handlers ------------------------------ *)

\* what the store does with a call: it accepts it, or raises with a message
StoreOutcomes == {[ok |-> TRUE]} \cup {[ok |-> FALSE, error |-> e] : e \in StoreErrors}

\* one run of a handler: the response, and the documents it handed to
\* create_document, one per call
Run(resp, writes) == [resp |-> resp, writes |-> writes]

\* POST /api/profile.  body: the request body; out: what the store does
\* with the call; oid: the identifier the store assigns if it accepts.
create_profile(body, out, oid) ==
    IF ~ValidProfileCreateRequest(body)
    THEN Run(ValidationErrorResponse, <<>>)
    ELSE LET data == DumpUserProfile(body["user"])
         IN  IF out.ok
             THEN Run(ProfileCreateResponse(InsertedId(oid)), <<data>>)
             ELSE Run(ServerError(out.error), <<data>>)

\* create_sos calling create_document a second time when the first raises
create_sos_retry(body, out, oid) ==
    IF ~ValidSOSRequest(body)
    THEN Run(ValidationErrorResponse, <<>>)
    ELSE LET data == SosData(body)
         IN  IF out.ok
             THEN Run(SOSResponse(InsertedId(oid)), <<data>>)
             ELSE Run(ServerError(out.error), <<data, data>>)

\* POST /api/sos
create_sos(body, out, oid) ==
    IF ~ValidSOSRequest(body)
    THEN Run(ValidationErrorResponse, <<>>)
    ELSE LET data == SosData(body)
         IN  IF out.ok
             THEN Run(SOSResponse(InsertedId(oid)), <<data>>)
             ELSE Run(ServerError(out.error), <<data>>)

\* GET /api/profile.  docs: what get_documents returns when it answers
list_profiles(out, docs) ==
    IF out.ok
    THEN Run(ListResponse(docs), <<>>)
    ELSE Run(ServerError(out.error), <<>>)

(* --------------------------- localisation ----------------------------- *)

\* the two string tables (values abbreviated to their language and key)
TRANSLATIONS ==
    [en |-> [title |-> "en:title", subtitle |-> "en:subtitle",
             get_started |-> "en:get_started", save |-> "en:save",
             sos |-> "en:sos", profile_saved |-> "en:profile_saved"],
     ar |-> [title |-> "ar:title", subtitle |-> "ar:subtitle",
             get_started |-> "ar:get_started", save |-> "ar:save",
             sos |-> "ar:sos", profile_saved |-> "ar:profile_saved"]]

\* str.lower(), one character
LowerChar(c) ==
    CASE c = "A" -> "a"
      [] c = "R" -> "r"
      [] c = "S" -> "s"
      [] c = "X" -> "x"
      [] OTHER -> c

\* str.lower()
Lower(s) == [i \in 1..Len(s) |-> LowerChar(s[i])]

\* str.startswith(prefix)
StartsWith(s, prefix) ==
    /\ Len(s) >= Len(prefix)
    /\ SubSeq(s, 1, Len(prefix)) = prefix

\* the prefix test without lower()
NormalizeLangCaseSensitive(lang) ==
    IF StartsWith(lang, <<"a", "r">>) THEN "ar" ELSE "en"

\* lang = "ar" if lang.lower().startswith("ar") else "en"
NormalizeLang(lang) == IF StartsWith(Lower(lang), <<"a", "r">>) THEN "ar" ELSE "en"

\* GET /api/i18n/{lang}: TRANSLATIONS[lang], a KeyError being a server error
get_translations(lang) ==
    LET key == NormalizeLang(lang)
    IN  IF key \in DOMAIN TRANSLATIONS
        THEN Run([status |-> StatusOk, table |-> TRANSLATIONS[key]], <<>>)
        ELSE Run([status |-> StatusServerError], <<>>)

LangAlphabet == {"a", "A", "r", "R"}

RECURSIVE Strings(_)
Strings(n) ==
    IF n = 0 THEN {<<>>}
    ELSE Strings(n - 1)
         \cup {Append(s, c) : s \in {t \in Strings(n - 1) : Len(t) = n - 1}, c \in LangAlphabet}

\* the path parameter lang, as a sequence of characters
LangInputs ==
    Strings(MaxLangLen)
    \cup {<<"A", "R", "-", "s", "a">>, <<"a", "r", "-", "S", "A">>,
          <<"e", "n">>, <<"x", "x">>, <<"x", "a", "r">>, <<"a", "x", "r">>}

(* ---------------------------- diagnostics ----------------------------- *)

\* a value of the response's database field: a fixed text and, for the two
\* error reports, the part of the exception's message that follows it
Report(text, detail) == [text |-> text, detail |-> detail]

\* str(e)[:50]
Truncate(msg) == SubSeq(msg, 1, Min(DiagMsgLimit, Len(msg)))

\* the response as first built
DiagResponse ==
    [backend |-> "Running",
     database |-> Report("Not Available", <<>>),
     database_url |-> None,
     database_name |-> None,
     connection_status |-> "Not Connected",
     collections |-> <<>>]

\* the inner try: db.list_collection_names() and its except clause
DiagCollections(env, r) ==
    IF env.list = "ok"
    THEN [r EXCEPT !.collections =
                       SubSeq(env.collections, 1,
                              Min(DiagCollectionLimit, Len(env.collections))),
                   !.database = Report("Connected & Working", <<>>)]
    ELSE [r EXCEPT !.database = Report("Connected but Error", Truncate(env.msg))]

\* the body of the outer try: the exception that leaves it, if any, and
\* the response so far
DiagBody(env, r) ==
    IF env.import # "ok"
    THEN [exc |-> env.import, r |-> r]
    ELSE IF env.db = "present"
         THEN [exc |-> "none",
               r |-> DiagCollections(env,
                        [r EXCEPT !.database = Report("Available", <<>>),
                                  !.database_url = "Configured",
                                  !.database_name = "Connected",
                                  !.connection_status = "Connected"])]
         ELSE [exc |-> "none",
               r |-> [r EXCEPT !.database = Report("Available but not initialized", <<>>)]]

\* test_database with the outer try catching ImportError only
test_database_import_only(env) ==
    LET b == DiagBody(env, DiagResponse)
        final(r) == [r EXCEPT !.database_url = IF env.url THEN "Set" ELSE "Not Set",
                              !.database_name = IF env.name THEN "Set" ELSE "Not Set"]
    IN  IF b.exc = "none"
        THEN Run([status |-> StatusOk, body |-> final(b.r)], <<>>)
        ELSE IF b.exc = "ImportError"
        THEN Run([status |-> StatusOk,
                  body |-> final([b.r EXCEPT !.database =
                                     Report("Database module not found", <<>>)])], <<>>)
        ELSE Run([status |-> StatusServerError], <<>>)

\* GET /test: the outer except clauses, then the two environment fields.
\* An exception no clause catches leaves the handler.
test_database(env) ==
    LET b == DiagBody(env, DiagResponse)
        final(r) == [r EXCEPT !.database_url = IF env.url THEN "Set" ELSE "Not Set",
                              !.database_name = IF env.name THEN "Set" ELSE "Not Set"]
    IN  IF b.exc = "none"
        THEN Run([status |-> StatusOk, body |-> final(b.r)], <<>>)
        ELSE IF b.exc = "ImportError"
        THEN Run([status |-> StatusOk,
                  body |-> final([b.r EXCEPT !.database =
                                     Report("Database module not found", <<>>)])], <<>>)
        ELSE IF b.exc = "Exception"
        THEN Run([status |-> StatusOk,
                  body |-> final([b.r EXCEPT !.database =
                                     Report("Error", Truncate(env.msg))])], <<>>)
        ELSE Run([status |-> StatusServerError], <<>>)

\* the names db.list_collection_names() returns, n of them
CollectionNames(n) == [i \in 1..n |-> i]

\* the conditions GET /test can meet: how the import of the database module
\* ends, whether db is set, how listing the collections ends
DiagEnvs ==
    {[import |-> "ImportError", db |-> "absent", list |-> "ok", msg |-> <<>>,
      collections |-> <<>>, url |-> u, name |-> u] : u \in BOOLEAN}
    \cup {[import |-> "Exception", db |-> "absent", list |-> "ok", msg |-> m,
           collections |-> <<>>, url |-> TRUE, name |-> FALSE] : m \in StoreErrors}
    \cup {[import |-> "ok", db |-> "absent", list |-> "ok", msg |-> <<>>,
           collections |-> <<>>, url |-> FALSE, name |-> TRUE]}
    \cup {[import |-> "ok", db |-> "present", list |-> "raises", msg |-> m,
           collections |-> <<>>, url |-> TRUE, name |-> TRUE] : m \in StoreErrors}
    \cup {[import |-> "ok", db |-> "present", list |-> "ok", msg |-> <<>>,
           collections |-> CollectionNames(n), url |-> TRUE, name |-> TRUE] :
              n \in 0..MaxCollections}

Exchange(op, req, run) ==
    [op |-> op, req |-> req, resp |-> run.resp, writes |-> run.writes]

\* the store's side of the create_document calls of one run: every
\* document of an accepted call is kept under the next identifier
Persist(coll, out, writes) ==
    IF out.ok
    THEN coll \o [i \in 1..Len(writes) |-> StoredDocument(nextOid + i - 1, writes[i])]
    ELSE coll

Assigned(out, writes) == IF out.ok THEN Len(writes) ELSE 0

(* ------------------------------ actions ------------------------------- *)

Init ==
    /\ poduser = <<>>
    /\ sos = <<>>
    /\ nextOid = 1
    /\ last = [op |-> "none", req |-> <<>>, resp |-> [status |-> 0], writes |-> <<>>]
    /\ returned = <<>>

PostProfile ==
    \E body \in ProfileBodies, out \in StoreOutcomes :
        LET run == create_profile(body, out, nextOid)
        IN  /\ nextOid + Assigned(out, run.writes) <= MaxDocs + 1
            /\ poduser' = Persist(poduser, out, run.writes)
            /\ nextOid' = nextOid + Assigned(out, run.writes)
            /\ last' = Exchange("create_profile", body, run)
            /\ returned' = IF "id" \in DOMAIN run.resp
                           THEN Append(returned, [id |-> run.resp.id, data |-> run.writes[1]])
                           ELSE returned
            /\ UNCHANGED sos

PostSos ==
    \E body \in SosBodies, out \in StoreOutcomes :
        LET run == create_sos(body, out, nextOid)
        IN  /\ nextOid + Assigned(out, run.writes) <= MaxDocs + 1
            /\ sos' = Persist(sos, out, run.writes)
            /\ nextOid' = nextOid + Assigned(out, run.writes)
            /\ last' = Exchange("create_sos", body, run)
            /\ UNCHANGED <<poduser, returned>>

GetProfiles ==
    \E q \in ListQueries, out \in StoreOutcomes :
        \E docs \in GetDocuments(poduser, Get(q, "limit", DefaultLimit)) :
            /\ last' = Exchange("list_profiles", q, list_profiles(out, docs))
            /\ UNCHANGED <<poduser, sos, nextOid, returned>>

GetTranslations ==
    \E lang \in LangInputs :
        /\ last' = Exchange("get_translations", lang, get_translations(lang))
        /\ UNCHANGED <<poduser, sos, nextOid, returned>>

GetTest ==
    \E env \in DiagEnvs :
        /\ last' = Exchange("test_database", env, test_database(env))
        /\ UNCHANGED <<poduser, sos, nextOid, returned>>

Next ==
    \/ PostProfile
    \/ PostSos
    \/ GetProfiles
    \/ GetTranslations
    \/ GetTest

Spec == Init /\ [][Next]_vars

(* ----------------------------- properties ------------------------------ *)

Creates == {"create_profile", "create_sos"}

StoreUnchanged == UNCHANGED <<poduser, sos, nextOid>>

\* C1: whatever status the client supplies, the document create_sos hands
\* to the store and the response both have status "open"; every record of
\* the sos collection has status "open" and the newest one keeps the
\* request's location, notes, user_id and emergency_type.
C1_SosStatusOpen ==
    /\ \A i \in 1..Len(sos) : sos[i]["status"] = "open"
    /\ last.op = "create_sos" =>
          /\ \A i \in 1..Len(last.writes) : last.writes[i]["status"] = "open"
          /\ last.resp.status = StatusOk =>
                /\ last.resp.sos_status = "open"
                /\ Len(sos) > 0
                /\ LET d == sos[Len(sos)]
                   IN  /\ d["location"] = Get(last.req, "location", None)
                       /\ d["notes"] = Get(last.req, "notes", None)
                       /\ d["user_id"] = Get(last.req, "user_id", None)
                       /\ d["emergency_type"] = Get(last.req, "emergency_type", "medical")

C1_Witness ==
    /\ last.op = "create_sos"
    /\ Get(last.req, "status", "absent") = "closed"
    /\ Get(last.req, "location", None) = "Dubai"
    /\ last.resp.status = StatusOk
    /\ Len(sos) = 2

EmptyDisabilityType(body) ==
    /\ "user" \in DOMAIN body
    /\ "profile" \in DOMAIN body["user"]
    /\ "disability_type" \in DOMAIN body["user"]["profile"]
    /\ body["user"]["profile"]["disability_type"] = <<>>

\* C2: a create-profile request whose disability_type is the empty list is
\* rejected with a validation error and nothing is handed to the store.
C2_EmptyDisabilityRejected ==
    (last.op = "create_profile" /\ EmptyDisabilityType(last.req)) =>
        (last.resp.status = StatusUnprocessable /\ last.writes = <<>>)

\* an independent statement of a body with an enumerated field outside its
\* literal set, or with the profile missing
BadProfileBody(body) ==
    /\ "user" \in DOMAIN body
    /\ \/ "profile" \notin DOMAIN body["user"]
       \/ LET p == body["user"]["profile"]
          IN  \/ /\ "disability_type" \in DOMAIN p
                 /\ \E i \in DOMAIN p["disability_type"] :
                        p["disability_type"][i] \notin DisabilityTypes
              \/ /\ "preferred_mode" \in DOMAIN p
                 /\ p["preferred_mode"] \notin PreferredModes
              \/ /\ "language" \in DOMAIN p
                 /\ p["language"] \notin Languages

BadSosBody(body) ==
    /\ "emergency_type" \in DOMAIN body
    /\ body["emergency_type"] \notin EmergencyTypes

C3_Rejected ==
    /\ (last.op = "create_profile" /\ BadProfileBody(last.req)) =>
           (last.resp.status = StatusUnprocessable /\ last.writes = <<>>)
    /\ (last.op = "create_sos" /\ BadSosBody(last.req)) =>
           (last.resp.status = StatusUnprocessable /\ last.writes = <<>>)

\* C3: a create_profile or create_sos request with an enumerated field
\* outside its literal set, or with the profile missing, is answered with
\* the validation error, nothing is handed to the store and the step that
\* answers it leaves both collections as they were.
C3_InvalidRejectedBeforeStore ==
    /\ []C3_Rejected
    /\ [][(last'.op \in Creates /\ last'.resp.status = StatusUnprocessable)
              => StoreUnchanged]_vars

C3_Witness ==
    /\ last.op = "create_profile"
    /\ BadProfileBody(last.req)
    /\ "profile" \in DOMAIN last.req["user"]
    /\ last.resp.status = StatusUnprocessable
    /\ Len(poduser) > 0

\* C4: the ids returned by successful create_profile calls are pairwise
\* different, identical payloads included.
C4_DistinctIds ==
    \A i, j \in 1..Len(returned) :
        i # j => returned[i].id # returned[j].id

C4_Witness ==
    /\ Len(returned) >= 2
    /\ returned[1].data = returned[2].data

\* C5: list_profiles(limit=N) returns at most N items, for every integer N
\* (the default when the query names none).
C5_AtMostLimit ==
    (last.op = "list_profiles" /\ last.resp.status = StatusOk) =>
        Len(last.resp.items) <= Get(last.req, "limit", DefaultLimit)

\* C6: every item list_profiles returns has an id field and no _id field,
\* and the id is the one the create_profile call that created the record
\* returned, the rest of the item being that call's data.
C6_PublicId ==
    (last.op = "list_profiles" /\ last.resp.status = StatusOk) =>
        \A i \in 1..Len(last.resp.items) :
            LET it == last.resp.items[i]
            IN  /\ "id" \in DOMAIN it
                /\ "_id" \notin DOMAIN it
                /\ \E k \in 1..Len(returned) :
                       /\ returned[k].id = it["id"]
                       /\ returned[k].data = Without(it, "id")

C6_Witness ==
    /\ last.op = "list_profiles"
    /\ last.resp.status = StatusOk
    /\ Len(last.resp.items) = 2
    /\ last.resp.items[1]["id"] # last.resp.items[2]["id"]

\* an independent statement of "lower-cased, starts with ar"
ArabicCode(lang) ==
    /\ Len(lang) >= 2
    /\ lang[1] \in {"a", "A"}
    /\ lang[2] \in {"r", "R"}

\* C7: get_translations answers with the Arabic table exactly when lang,
\* lower-cased, starts with "ar", and with the English table otherwise; it
\* never fails on a missing table.
C7_Translations ==
    /\ TRANSLATIONS["ar"] # TRANSLATIONS["en"]
    /\ last.op = "get_translations" =>
          /\ last.resp.status = StatusOk
          /\ last.resp.table =
                 IF ArabicCode(last.req) THEN TRANSLATIONS["ar"] ELSE TRANSLATIONS["en"]

C7_Witness ==
    /\ last.op = "get_translations"
    /\ last.req = <<"A", "R", "-", "s", "a">>
    /\ last.resp.table = get_translations(<<"a", "r">>).resp.table
    /\ last.resp.table = TRANSLATIONS["ar"]

Collection(op) == IF op = "create_profile" THEN poduser ELSE sos

C8_Outcome ==
    last.op \in Creates =>
        /\ Len(last.writes) <= 1
        /\ last.resp.status \in {StatusOk, StatusUnprocessable, StatusServerError}
        /\ last.resp.status = StatusOk =>
              /\ Len(last.writes) = 1
              /\ "id" \in DOMAIN last.resp
              /\ \E i \in 1..Len(Collection(last.op)) :
                     /\ Str(Collection(last.op)[i]["_id"]) = last.resp.id
                     /\ Without(Collection(last.op)[i], "_id") = last.writes[1]
        /\ last.resp.status # StatusOk => "id" \notin DOMAIN last.resp

\* C8: a create_profile or create_sos request calls the store's create at
\* most once; a success response carries the id of a document the store
\* holds; a failed store call gives a server error without an id and
\* leaves the store as it was; one step adds at most one document.
C8_AllOrNothing ==
    /\ []C8_Outcome
    /\ [][/\ (last'.op \in Creates /\ last'.resp.status # StatusOk) => StoreUnchanged
          /\ Len(poduser') + Len(sos') <= Len(poduser) + Len(sos) + 1]_vars

C8_Witness ==
    /\ last.op = "create_profile"
    /\ last.resp.status = StatusServerError
    /\ Len(last.writes) = 1
    /\ Len(poduser) = 1

\* C9: the server error of create_profile, list_profiles and create_sos
\* carries the store's message cut to a bounded length.
C9_DetailTruncated ==
    (/\ last.op \in Creates \cup {"list_profiles"}
     /\ last.resp.status = StatusServerError) =>
        Len(last.resp.detail) <= DiagMsgLimit

FailureReports ==
    {"Database module not found", "Error", "Available but not initialized",
     "Connected but Error"}

C10_Response ==
    last.op = "test_database" =>
        /\ last.resp.status = StatusOk
        /\ Len(last.resp.body.collections) <= DiagCollectionLimit
        /\ LET works == /\ last.req.import = "ok"
                        /\ last.req.db = "present"
                        /\ last.req.list = "ok"
               text == last.resp.body.database.text
           IN  IF works THEN text \notin FailureReports ELSE text \in FailureReports

\* C10: test_database answers with its response mapping in every store
\* condition, reports each failure in the database field, reports at most
\* 10 collection names and leaves the store as it was.
C10_DiagnosticNeverRaises ==
    /\ []C10_Response
    /\ [][last'.op = "test_database" => StoreUnchanged]_vars

C10_Witness ==
    /\ last.op = "test_database"
    /\ last.req.import = "Exception"
    /\ Len(last.req.msg) > DiagMsgLimit
    /\ last.resp.status = StatusOk
    /\ Len(poduser) > 0

=============================================================================
